---- MODULE Spec2Model ----
(***************************************************************************)
(* Model of music_lean.py: the metrics simulator, the session logger, the  *)
(* external tool bridge, the report generator and the orchestrator main(). *)
(*                                                                         *)
(* Units. Values the program holds as floats with one decimal are kept as  *)
(* integers in tenths: total_time_min and manual_actions_per_song.         *)
(* A session record (a Python dict, which keeps insertion order) is a      *)
(* sequence of <<key, value>> pairs. The log file is a sequence of lines,  *)
(* each line a sequence of cells; <<>> is the absent file.                 *)
(***************************************************************************)
EXTENDS Integers, Sequences, FiniteSets, TLC

VARIABLES
    pc,            \* position of main(): "idle" before the first run, "exited" after a run
    runs,          \* number of program runs started so far
    dir,           \* number of files in MUSIC_INPUT_DIR with an allowed extension
    file_count,    \* main(): file_count
    before_data,   \* main(): before_data (<<>> while unbound)
    after_data,    \* main(): after_data (<<>> while unbound)
    log,           \* the lines of LOG_FILE (<<>>: the file does not exist)
    chart,         \* the content of CHART_FILE (<<>>: the file does not exist)
    picard_cmd,    \* launch_picard(): picard_cmd ("None" while unset)
    installed,     \* the candidate paths for which os.path.exists holds on this machine
    platform,      \* sys.platform: "darwin" or "other"
    in_path,       \* whether the bare command name "picard" resolves on the search path
    picard,        \* the process this run spawned: "none", "running", "exited"
    message,       \* the last diagnostic the program printed
    summary,       \* the percentages of the final summary (<<>>: not printed)
    exit_status,   \* exit status of the last run (-1: has not exited)
    steps,         \* history: the orchestrator steps this run has executed
    appended,      \* history: every record handed to log_data, in call order
    log_at_start   \* history: the log as it was when this run started

vars == <<pc, runs, dir, file_count, before_data, after_data, log, chart,
          picard_cmd, installed, platform, in_path, picard, message, summary,
          exit_status, steps, appended, log_at_start>>

(***************************************************************************)
(* Bounds of the model.                                                    *)
(***************************************************************************)
MaxRuns == 2
MaxFileCount == 150
MaxNegCount == 3
MaxLogRows == 3

\* File counts the input directory takes in the orchestrator runs.
FileCounts == {0, 5, 20, 100}

(***************************************************************************)
(* Arithmetic of the Python expressions.                                   *)
(***************************************************************************)
\* int(x) of a float x = num/den (den > 0): truncation toward zero.
IntTrunc(num, den) ==
    IF num >= 0 THEN num \div den ELSE -((-num) \div den)

Max(a, b) == IF a >= b THEN a ELSE b

RECURSIVE BitLength(_)
BitLength(q) == IF q = 0 THEN 0 ELSE 1 + BitLength(q \div 2)

Pow2(k) == IF k = 0 THEN 1 ELSE IF k = 1 THEN 2 ELSE IF k = 2 THEN 4 ELSE 8

\* round(sec / 60, 1), in tenths of a minute, for sec >= 0.
\* Off a tie it is the nearest tenth. On a tie (sec/6 ends in .5) Python rounds
\* the double nearest to sec/60: sec/60 = (sec/15)/4 and sec/15 = q + r/15,
\* whose binary expansion repeats the four bits of r, so the 53-bit double lies
\* above the tie exactly when the bits cut off weigh more than a half; when
\* sec/60 is itself a double (r = 0) the tie is exact and goes to the even tenth.
RoundTenthNonNeg(sec) ==
    LET lo == sec \div 6
        q  == sec \div 15
        r  == sec % 15
        k  == 53 - BitLength(q)
    IN  IF sec % 6 # 3 THEN (2 * sec + 6) \div 12
        ELSE IF r = 0 THEN (IF lo % 2 = 0 THEN lo ELSE lo + 1)
        ELSE IF (Pow2(k % 4) * r) % 15 >= 8 THEN lo + 1 ELSE lo

\* round(total_time_sec / 60, 1), in tenths of a minute: doubles and their
\* rounding are symmetric about zero.
RoundTenth(sec) ==
    IF sec >= 0 THEN RoundTenthNonNeg(sec) ELSE -RoundTenthNonNeg(-sec)

\* round(num / den) for num >= 0, den > 0: nearest integer, ties to even.
RoundHalfEven(num, den) ==
    LET q == num \div den
        r == num % den
    IN  IF 2 * r < den THEN q
        ELSE IF 2 * r > den THEN q + 1
        ELSE IF q % 2 = 0 THEN q ELSE q + 1

(***************************************************************************)
(* Session records.                                                        *)
(***************************************************************************)
\* d[key] of a dict.
Get(d, key) == d[CHOOSE i \in 1..Len(d) : d[i][1] = key][2]

\* data.keys() and the values in key order.
Keys(d) == [i \in 1..Len(d) |-> d[i][1]]
Values(d) == [i \in 1..Len(d) |-> d[i][2]]

\* Faulty variant of simulate_before_state: the error count is not raised to at least 1.
simulate_before_state_nofloor(n) ==
    LET avg_time_per_song == 189
        total_time_sec == n * avg_time_per_song
        manual_actions == 80
        errors == IntTrunc(n * 15, 100)
        duplicates == Max(0, IntTrunc(n * 10, 100))
    IN  << <<"session_type", "before">>,
           <<"songs_processed", n>>,
           <<"total_time_min", RoundTenth(total_time_sec)>>,
           <<"avg_time_per_song_sec", avg_time_per_song>>,
           <<"manual_actions_per_song", manual_actions>>,
           <<"errors", errors>>,
           <<"duplicates", duplicates>> >>

simulate_before_state(n) ==
    LET avg_time_per_song == 189
        total_time_sec == n * avg_time_per_song
        manual_actions == 80
        errors == Max(1, IntTrunc(n * 15, 100))
        duplicates == Max(0, IntTrunc(n * 10, 100))
    IN  << <<"session_type", "before">>,
           <<"songs_processed", n>>,
           <<"total_time_min", RoundTenth(total_time_sec)>>,
           <<"avg_time_per_song_sec", avg_time_per_song>>,
           <<"manual_actions_per_song", manual_actions>>,
           <<"errors", errors>>,
           <<"duplicates", duplicates>> >>

\* Faulty variant of simulate_after_state: an error rate of 10% in place of 1%.
simulate_after_state_rate10(n) ==
    LET avg_time_per_song == 38
        total_time_sec == n * avg_time_per_song
        manual_actions == 15
        errors == IF n < 10 THEN 0 ELSE Max(0, IntTrunc(n * 10, 100))
        duplicates == 0
    IN  << <<"session_type", "after">>,
           <<"songs_processed", n>>,
           <<"total_time_min", RoundTenth(total_time_sec)>>,
           <<"avg_time_per_song_sec", avg_time_per_song>>,
           <<"manual_actions_per_song", manual_actions>>,
           <<"errors", errors>>,
           <<"duplicates", duplicates>> >>

simulate_after_state(n) ==
    LET avg_time_per_song == 38
        total_time_sec == n * avg_time_per_song
        manual_actions == 15
        errors == IF n < 10 THEN 0 ELSE Max(0, IntTrunc(n * 1, 100))
        duplicates == 0
    IN  << <<"session_type", "after">>,
           <<"songs_processed", n>>,
           <<"total_time_min", RoundTenth(total_time_sec)>>,
           <<"avg_time_per_song_sec", avg_time_per_song>>,
           <<"manual_actions_per_song", manual_actions>>,
           <<"errors", errors>>,
           <<"duplicates", duplicates>> >>

(***************************************************************************)
(* Session logger.                                                         *)
(***************************************************************************)
\* os.path.isfile(LOG_FILE)
file_exists(f) == f # <<>>

\* Faulty variant of log_data: the file opened in write mode, truncating it.
log_data_truncating(f, data) == <<Keys(data), Values(data)>>

\* The file after log_data(data): opened in append mode, the header line
\* written only when the file did not exist, then the row.
log_data(f, data) ==
    IF ~file_exists(f)
    THEN <<Keys(data), Values(data)>>
    ELSE Append(f, Values(data))

(***************************************************************************)
(* Report generator.                                                       *)
(***************************************************************************)
\* pd.read_csv(LOG_FILE): the first line names the columns, every later line
\* is a row; column c of row i is Cell(f, i, c).
Columns(f) == f[1]
NumRows(f) == Len(f) - 1
Cell(f, i, c) == f[i + 1][CHOOSE j \in 1..Len(f[1]) : f[1][j] = c]

\* df[df['session_type'] == t]: the indices of the rows of session type t.
RowsOfType(f, t) == {i \in 1..NumRows(f) : Cell(f, i, "session_type") = t}

RECURSIVE SumCells(_, _, _)
SumCells(f, rows, c) ==
    IF rows = {} THEN 0
    ELSE LET i == CHOOSE x \in rows : TRUE
         IN  Cell(f, i, c) + SumCells(f, rows \ {i}, c)

metrics == <<"avg_time_per_song_sec", "manual_actions_per_song", "errors", "duplicates">>

\* df[metrics].mean() over the rows given: per metric the rational sum/count,
\* kept as the pair <<sum, count>>.
Mean(f, rows) ==
    [m \in 1..Len(metrics) |-> <<SumCells(f, rows, metrics[m]), Cardinality(rows)>>]

\* Faulty variant of generate_visualizations: "and" in place of "or" in the test for
\* missing session types.
generate_visualizations_and(f, oldchart) ==
    IF ~file_exists(f)
    THEN [chart |-> oldchart, message |-> "No log data found."]
    ELSE LET before == RowsOfType(f, "before")
             after  == RowsOfType(f, "after")
         IN  IF Cardinality(before) = 0 /\ Cardinality(after) = 0
             THEN [chart |-> oldchart,
                   message |-> "Need both 'before' and 'after' data."]
             ELSE [chart |-> <<Mean(f, before), Mean(f, after)>>,
                   message |-> "Visualizations saved"]

\* generate_visualizations(): the chart file and the message it leaves.
generate_visualizations(f, oldchart) ==
    IF ~file_exists(f)
    THEN [chart |-> oldchart, message |-> "No log data found."]
    ELSE LET before == RowsOfType(f, "before")
             after  == RowsOfType(f, "after")
         IN  IF Cardinality(before) = 0 \/ Cardinality(after) = 0
             THEN [chart |-> oldchart,
                   message |-> "Need both 'before' and 'after' data."]
             ELSE [chart |-> <<Mean(f, before), Mean(f, after)>>,
                   message |-> "Visualizations saved"]

(***************************************************************************)
(* External tool bridge.                                                   *)
(***************************************************************************)
picard_paths ==
    << "C:/Program Files/MusicBrainz Picard/picard.exe",
       "C:/Program Files (x86)/MusicBrainz Picard/picard.exe",
       "/Applications/MusicBrainz Picard.app/Contents/MacOS/picard",
       "/usr/bin/picard",
       "picard" >>

\* The candidates that name a file: all but the bare command name, which the
\* loop accepts without probing the file system.
AbsolutePaths == {picard_paths[i] : i \in 1..Len(picard_paths)} \ {"picard"}

\* The probing loop from candidate i on; existing is the set of paths for
\* which os.path.exists holds.
RECURSIVE ProbeFrom(_, _)
ProbeFrom(i, existing) ==
    IF i > Len(picard_paths) THEN "None"
    ELSE IF picard_paths[i] \in existing \/ picard_paths[i] = "picard"
         THEN picard_paths[i]
         ELSE ProbeFrom(i + 1, existing)

\* Faulty variant of SelectPicard: the loop without its "or path == 'picard'".
RECURSIVE ProbeExistingFrom(_, _)
ProbeExistingFrom(i, existing) ==
    IF i > Len(picard_paths) THEN "None"
    ELSE IF picard_paths[i] \in existing
         THEN picard_paths[i]
         ELSE ProbeExistingFrom(i + 1, existing)

SelectPicardNoFallback(existing) == ProbeExistingFrom(1, existing)

SelectPicard(existing) == ProbeFrom(1, existing)

(***************************************************************************)
(* Summary percentages of main().                                          *)
(***************************************************************************)
time_saved_percent(b, a) ==
    RoundHalfEven(100 * (Get(b, "avg_time_per_song_sec") - Get(a, "avg_time_per_song_sec")),
                  Get(b, "avg_time_per_song_sec"))

error_reduction_percent(b, a) ==
    LET den == Max(1, Get(b, "errors"))
    IN  RoundHalfEven(100 * (den - Get(a, "errors")), den)

\* Faulty variant of Summary: the percentages taken from the oldest rows of each
\* session type in the log instead of the records of this run.
SummaryHistorical(b, a) ==
    LET fb == CHOOSE i \in RowsOfType(log, "before") :
                  \A j \in RowsOfType(log, "before") : i <= j
        fa == CHOOSE i \in RowsOfType(log, "after") :
                  \A j \in RowsOfType(log, "after") : i <= j
        den == Max(1, Cell(log, fb, "errors"))
    IN  << RoundHalfEven(100 * (Cell(log, fb, "avg_time_per_song_sec")
                                 - Cell(log, fa, "avg_time_per_song_sec")),
                         Cell(log, fb, "avg_time_per_song_sec")),
           RoundHalfEven(100 * (den - Cell(log, fa, "errors")), den) >>

Summary(b, a) == <<time_saved_percent(b, a), error_reduction_percent(b, a)>>

(***************************************************************************)
(* The orchestrator: one action per step of main(), in program order.      *)
(***************************************************************************)
Init ==
    /\ pc = "idle"
    /\ runs = 0
    /\ dir \in FileCounts
    /\ file_count = 0
    /\ before_data = <<>>
    /\ after_data = <<>>
    /\ log = <<>>
    /\ chart = <<>>
    /\ picard_cmd = "None"
    /\ installed \in SUBSET AbsolutePaths
    /\ platform \in {"darwin", "other"}
    /\ in_path \in BOOLEAN
    /\ picard = "none"
    /\ message = ""
    /\ summary = <<>>
    /\ exit_status = -1
    /\ steps = <<>>
    /\ appended = <<>>
    /\ log_at_start = <<>>

\* The operator starts the program: a fresh process, whose locals are unbound.
StartRun ==
    /\ pc \in {"idle", "exited"}
    /\ runs < MaxRuns
    /\ runs' = runs + 1
    /\ pc' = "count"
    /\ file_count' = 0
    /\ before_data' = <<>>
    /\ after_data' = <<>>
    /\ picard_cmd' = "None"
    /\ picard' = "none"
    /\ message' = ""
    /\ summary' = <<>>
    /\ exit_status' = -1
    /\ steps' = <<>>
    /\ log_at_start' = log
    /\ UNCHANGED <<installed, platform, in_path, dir, log, chart, appended>>

\* Files are added to or removed from the input directory, between runs or
\* while the program waits at the prompt of the bridge.
ChangeInputDir ==
    /\ pc \in {"idle", "exited", "wait_input"}
    /\ \E n \in FileCounts \ {dir} : dir' = n
    /\ UNCHANGED <<pc, runs, file_count, before_data, after_data, log, chart,
                   picard_cmd, installed, platform, in_path, picard, message, summary, exit_status, steps,
                   appended, log_at_start>>

\* The spawned process ends; the program holds no handle on it.
PicardExits ==
    /\ picard = "running"
    /\ picard' = "exited"
    /\ UNCHANGED <<pc, runs, dir, file_count, before_data, after_data, log, chart,
                   picard_cmd, installed, platform, in_path, message, summary, exit_status, steps,
                   appended, log_at_start>>

\* Count the input files; exit with status 1 when there are none.
CountFiles ==
    /\ pc = "count"
    /\ file_count' = dir
    /\ steps' = Append(steps, "count")
    /\ IF dir = 0
       THEN /\ message' = "No music files found"
            /\ exit_status' = 1
            /\ pc' = "exited"
       ELSE /\ message' = "Found music files"
            /\ exit_status' = exit_status
            /\ pc' = "sim_before"
    /\ UNCHANGED <<runs, dir, before_data, after_data, log, chart, picard_cmd, installed, platform, in_path,
                   picard, summary, appended, log_at_start>>

SimulateBefore ==
    /\ pc = "sim_before"
    /\ before_data' = simulate_before_state(file_count)
    /\ steps' = Append(steps, "simulate_before")
    /\ pc' = "log_before"
    /\ UNCHANGED <<runs, dir, file_count, after_data, log, chart, picard_cmd, installed, platform, in_path,
                   picard, message, summary, exit_status, appended, log_at_start>>

\* Faulty variant of LogBefore: the "before" record is not logged.
LogBeforeSkipped ==
    /\ pc = "log_before"
    /\ steps' = Append(steps, "append_before")
    /\ pc' = "launch"
    /\ UNCHANGED <<runs, dir, file_count, before_data, after_data, log, chart,
                   picard_cmd, installed, platform, in_path, picard, message, summary, exit_status,
                   appended, log_at_start>>

LogBefore ==
    /\ pc = "log_before"
    /\ log' = log_data(log, before_data)
    /\ appended' = Append(appended, before_data)
    /\ steps' = Append(steps, "append_before")
    /\ pc' = "launch"
    /\ UNCHANGED <<runs, dir, file_count, before_data, after_data, chart,
                   picard_cmd, installed, platform, in_path, picard, message, summary, exit_status, log_at_start>>

\* Whether the program subprocess.Popen is asked to run can be started: on
\* macOS it is the system's "open", given picard_cmd as the application to
\* open; elsewhere it is picard_cmd itself, a probed path that exists or the
\* bare name, which must resolve on the search path.
CanSpawn(cmd) ==
    IF platform = "darwin" THEN TRUE
    ELSE cmd \in installed \/ (cmd = "picard" /\ in_path)

\* Faulty variant of LaunchPicard: the bridge returns once the process is spawned,
\* without the prompt.
LaunchPicardNoPrompt ==
    /\ pc = "launch"
    /\ steps' = Append(steps, "launch")
    /\ \E spawned \in BOOLEAN :
          LET cmd == SelectPicard(installed)
          IN  /\ spawned => CanSpawn(cmd)
              /\ picard_cmd' = cmd
              /\ IF cmd = "None" \/ ~spawned
                 THEN /\ message' = "Failed to launch Picard"
                      /\ exit_status' = 1
                      /\ pc' = "exited"
                      /\ picard' = picard
                 ELSE /\ message' = "Waiting for you to finish organizing in Picard..."
                      /\ exit_status' = exit_status
                      /\ pc' = "sim_after"
                      /\ picard' = "running"
    /\ UNCHANGED <<installed, platform, in_path, runs, dir, file_count, before_data, after_data, log,
                   chart, summary, appended, log_at_start>>

\* launch_picard() up to its prompt. spawned: whether subprocess.Popen started
\* a process or raised.
LaunchPicard ==
    /\ pc = "launch"
    /\ steps' = Append(steps, "launch")
    /\ \E spawned \in BOOLEAN :
          LET cmd == SelectPicard(installed)
          IN  /\ spawned => CanSpawn(cmd)
              /\ picard_cmd' = cmd
              /\ IF cmd = "None"
                 THEN /\ message' = "MusicBrainz Picard not found."
                      /\ exit_status' = 1
                      /\ pc' = "exited"
                      /\ picard' = picard
                 ELSE IF ~spawned
                 THEN /\ message' = "Failed to launch Picard"
                      /\ exit_status' = 1
                      /\ pc' = "exited"
                      /\ picard' = picard
                 ELSE /\ message' = "Waiting for you to finish organizing in Picard..."
                      /\ exit_status' = exit_status
                      /\ pc' = "wait_input"
                      /\ picard' = "running"
    /\ UNCHANGED <<installed, platform, in_path, runs, dir, file_count, before_data, after_data, log, chart,
                   summary, appended, log_at_start>>

\* The operator presses ENTER at the prompt: input() returns and so does
\* launch_picard().
OperatorSignalsCompletion ==
    /\ pc = "wait_input"
    /\ steps' = Append(steps, "operator_signal")
    /\ pc' = "sim_after"
    /\ UNCHANGED <<runs, dir, file_count, before_data, after_data, log, chart,
                   picard_cmd, installed, platform, in_path, picard, message, summary, exit_status, appended,
                   log_at_start>>

\* Faulty variant of SimulateAfter: the directory is counted again.
SimulateAfterRecount ==
    /\ pc = "sim_after"
    /\ after_data' = simulate_after_state(dir)
    /\ steps' = Append(steps, "simulate_after")
    /\ pc' = "log_after"
    /\ UNCHANGED <<runs, dir, file_count, before_data, log, chart, picard_cmd,
                   installed, platform, in_path, picard, message, summary, exit_status, appended,
                   log_at_start>>

SimulateAfter ==
    /\ pc = "sim_after"
    /\ after_data' = simulate_after_state(file_count)
    /\ steps' = Append(steps, "simulate_after")
    /\ pc' = "log_after"
    /\ UNCHANGED <<runs, dir, file_count, before_data, log, chart, picard_cmd, installed, platform, in_path,
                   picard, message, summary, exit_status, appended, log_at_start>>

LogAfter ==
    /\ pc = "log_after"
    /\ log' = log_data(log, after_data)
    /\ appended' = Append(appended, after_data)
    /\ steps' = Append(steps, "append_after")
    /\ pc' = "report"
    /\ UNCHANGED <<runs, dir, file_count, before_data, after_data, chart,
                   picard_cmd, installed, platform, in_path, picard, message, summary, exit_status, log_at_start>>

GenerateReport ==
    /\ pc = "report"
    /\ LET r == generate_visualizations(log, chart)
       IN  /\ chart' = r.chart
           /\ message' = r.message
    /\ steps' = Append(steps, "report")
    /\ pc' = "summary"
    /\ UNCHANGED <<runs, dir, file_count, before_data, after_data, log,
                   picard_cmd, installed, platform, in_path, picard, summary, exit_status, appended, log_at_start>>

\* The final summary; main() returns and the process exits with status 0.
PrintSummary ==
    /\ pc = "summary"
    /\ summary' = Summary(before_data, after_data)
    /\ steps' = Append(steps, "summary")
    /\ exit_status' = 0
    /\ pc' = "exited"
    /\ UNCHANGED <<runs, dir, file_count, before_data, after_data, log, chart,
                   picard_cmd, installed, platform, in_path, picard, message, appended, log_at_start>>

Next ==
    \/ StartRun
    \/ ChangeInputDir
    \/ PicardExits
    \/ CountFiles
    \/ SimulateBefore
    \/ LogBefore
    \/ LaunchPicard
    \/ OperatorSignalsCompletion
    \/ SimulateAfter
    \/ LogAfter
    \/ GenerateReport
    \/ PrintSummary

Spec == Init /\ [][Next]_vars

(***************************************************************************)
(* The functions called on their own, in any order, on one file_count      *)
(* drawn from the whole range: the specification of the claims about the   *)
(* simulator, the logger and the report generator as functions.            *)
(***************************************************************************)
\* A chart file left by an earlier successful report.
StaleChart ==
    generate_visualizations(
        log_data(log_data(<<>>, simulate_before_state(20)), simulate_after_state(20)),
        <<>>).chart

InitUnit ==
    /\ pc = "unit"
    /\ runs = 0
    /\ dir = 0
    /\ file_count \in (0 - MaxNegCount)..MaxFileCount
    /\ before_data = <<>>
    /\ after_data = <<>>
    /\ log = <<>>
    /\ chart \in {<<>>, StaleChart}
    /\ picard_cmd = "None"
    /\ installed = {}
    /\ platform = "other"
    /\ in_path = FALSE
    /\ picard = "none"
    /\ message = ""
    /\ summary = <<>>
    /\ exit_status = -1
    /\ steps = <<>>
    /\ appended = <<>>
    /\ log_at_start = <<>>

CallSimulateBefore ==
    /\ pc = "unit"
    /\ before_data' = simulate_before_state(file_count)
    /\ steps' = <<"simulate_before">>
    /\ UNCHANGED <<pc, runs, dir, file_count, after_data, log, chart, picard_cmd, installed, platform, in_path,
                   picard, message, summary, exit_status, appended, log_at_start>>

CallSimulateAfter ==
    /\ pc = "unit"
    /\ after_data' = simulate_after_state(file_count)
    /\ steps' = <<"simulate_after">>
    /\ UNCHANGED <<pc, runs, dir, file_count, before_data, log, chart, picard_cmd, installed, platform, in_path,
                   picard, message, summary, exit_status, appended, log_at_start>>

CallLogData ==
    /\ pc = "unit"
    /\ Len(appended) < MaxLogRows
    /\ \E data \in {before_data, after_data} \ {<<>>} :
          /\ log' = log_data(log, data)
          /\ appended' = Append(appended, data)
    /\ steps' = <<"log_data">>
    /\ log_at_start' = log
    /\ UNCHANGED <<pc, runs, dir, file_count, before_data, after_data, chart,
                   picard_cmd, installed, platform, in_path, picard, message, summary, exit_status>>

CallGenerateVisualizations ==
    /\ pc = "unit"
    /\ LET r == generate_visualizations(log, chart)
       IN  /\ chart' = r.chart
           /\ message' = r.message
    /\ steps' = <<"report">>
    /\ log_at_start' = log
    /\ UNCHANGED <<pc, runs, dir, file_count, before_data, after_data, log,
                   picard_cmd, installed, platform, in_path, picard, summary, exit_status, appended>>

NextUnit ==
    \/ CallSimulateBefore
    \/ CallSimulateAfter
    \/ CallLogData
    \/ CallGenerateVisualizations

SpecUnit == InitUnit /\ [][NextUnit]_vars

(***************************************************************************)
(* Properties.                                                             *)
(***************************************************************************)
\* The steps of a complete run, in order.
Order ==
    << "count", "simulate_before", "append_before", "launch", "operator_signal",
       "simulate_after", "append_after", "report", "summary" >>

IsPrefix(s, t) == Len(s) <= Len(t) /\ \A i \in 1..Len(s) : s[i] = t[i]

InSteps(x) == \E i \in 1..Len(steps) : steps[i] = x

LastStep == IF steps = <<>> THEN "" ELSE steps[Len(steps)]

\* The header of the log, as the specification lists it.
FieldNames ==
    << "session_type", "songs_processed", "total_time_min", "avg_time_per_song_sec",
       "manual_actions_per_song", "errors", "duplicates" >>

\* The rows of session type t, read off the raw lines of the log.
LinesOfType(f, t) == {i \in 2..Len(f) : f[i][1] = t}

\* e = floor(num / den), for den > 0.
IsFloor(e, num, den) == den * e <= num /\ num < den * (e + 1)

\* C1: the steps of every run form a prefix of the fixed order; the process is
\* spawned only once the "before" record of this run is in the log; the
\* "after" record exists only once the operator has signalled; and at the
\* prompt the signal can be given whatever the state of the spawned process.
C1_StepOrder ==
    /\ IsPrefix(steps, Order)
    /\ (picard # "none" =>
           /\ InSteps("append_before")
           /\ Len(log) >= Max(Len(log_at_start), 1) + 1)
    /\ (after_data # <<>> => InSteps("operator_signal"))
    /\ (InSteps("append_after") => InSteps("operator_signal"))
    /\ (pc = "wait_input" => ENABLED OperatorSignalsCompletion)

C1_Witness ==
    /\ steps = Order
    /\ picard = "running"
    /\ exit_status = 0

\* The log holds the header once, then the records handed to log_data, one
\* row each, in call order.
LogMatchesAppends ==
    IF appended = <<>> THEN log = <<>>
    ELSE /\ Len(log) = Len(appended) + 1
         /\ log[1] = FieldNames
         /\ \A i \in 1..Len(appended) : log[i + 1] = Values(appended[i])

\* A step leaves the lines already in the log as they are.
LogOnlyGrows == IsPrefix(log, log')

\* C2: after N appends to an absent log the file is the header line followed
\* by the N records as rows in insertion order, and no step of any run
\* changes a line already written.
C2_AppendOnly == [](LogMatchesAppends) /\ [][LogOnlyGrows]_vars

C2_Witness ==
    /\ runs = 2
    /\ Len(appended) = 4
    /\ Len(log) = 5
    /\ log[2] = log[4]

\* C3: the "after" record of a run carries the songs_processed of its "before"
\* record, the count taken at the start, also in the rows logged.
C3_SameCount ==
    /\ (after_data # <<>> =>
           /\ Get(after_data, "songs_processed") = Get(before_data, "songs_processed")
           /\ Get(after_data, "songs_processed") = file_count)
    /\ (InSteps("append_after") =>
           /\ log[Len(log)][1] = "after"
           /\ log[Len(log) - 1][1] = "before"
           /\ log[Len(log)][2] = log[Len(log) - 1][2])

C3_Witness ==
    /\ InSteps("append_after")
    /\ dir # file_count
    /\ log[Len(log)][2] = file_count

\* C4: for file_count > 0 the "before" record has session_type "before", 189
\* seconds per song, errors = max(1, floor(0.15 * file_count)) and
\* duplicates = max(0, floor(0.10 * file_count)).
C4_SimulateBefore ==
    (before_data # <<>> /\ file_count > 0) =>
        LET e == Get(before_data, "errors")
            d == Get(before_data, "duplicates")
        IN  /\ Get(before_data, "session_type") = "before"
            /\ Get(before_data, "avg_time_per_song_sec") = 189
            /\ e >= 1
            /\ (e = 1 \/ IsFloor(e, 15 * file_count, 100))
            /\ (e = 1 => 15 * file_count < 200)
            /\ d >= 0
            /\ IsFloor(d, 10 * file_count, 100)

C4_Witness ==
    /\ before_data # <<>>
    /\ file_count = 100
    /\ Get(before_data, "errors") = 15
    /\ Get(before_data, "duplicates") = 10

\* C5: for every file_count the "after" record has session_type "after", 38
\* seconds per song, no duplicates, no errors below 10 files and otherwise
\* errors = max(0, floor(0.01 * file_count)): 0 for 10 files, 1 for 150.
C5_SimulateAfter ==
    after_data # <<>> =>
        LET e == Get(after_data, "errors")
        IN  /\ Get(after_data, "session_type") = "after"
            /\ Get(after_data, "avg_time_per_song_sec") = 38
            /\ Get(after_data, "duplicates") = 0
            /\ (file_count < 10 => e = 0)
            /\ (file_count >= 10 => e >= 0 /\ IsFloor(e, file_count, 100))
            /\ (file_count = 10 => e = 0)
            /\ (file_count = 150 => e = 1)

C5_Witness ==
    /\ after_data # <<>>
    /\ file_count = 150
    /\ Get(after_data, "errors") = 1

\* The exit status on the paths main() and launch_picard() take: 0 only after
\* all nine steps, 1 after a count of zero, which ends the run right after the
\* count with the log as it was at its start and no process spawned, and 1
\* when the run ends in the bridge.
ExitStatusOfPaths ==
    /\ (pc = "exited" => exit_status \in {0, 1})
    /\ (pc # "exited" /\ pc # "idle" => exit_status = -1)
    /\ (exit_status = 0 =>
           /\ steps = Order
           /\ summary # <<>>
           /\ Len(log) = Max(Len(log_at_start), 1) + 2)
    /\ (steps # <<>> /\ file_count = 0 =>
           /\ pc = "exited"
           /\ exit_status = 1
           /\ steps = <<"count">>
           /\ before_data = <<>>
           /\ log = log_at_start
           /\ picard = "none")
    /\ (pc = "exited" /\ LastStep = "launch" => exit_status = 1)

\* The external tool can be located: a candidate path exists or the bare
\* command name resolves on the search path.
ToolLocatable == installed # {} \/ in_path

\* C6: a run exits with status 0 only after all nine steps, and with status 1
\* when no input file is found (right after the count, nothing logged, nothing
\* spawned) and when the run ends in the bridge; and no run exits with status
\* 0 on a machine where the external tool cannot be located.
C6_ExitStatus ==
    /\ ExitStatusOfPaths
    /\ (exit_status = 0 => ToolLocatable)

\* The log has at least one row of each session type.
HasBothTypes(f) == LinesOfType(f, "before") # {} /\ LinesOfType(f, "after") # {}

\* C7: a report on an absent log says that there is no data, a report on a log
\* with rows of one session type only says that data is missing, and both
\* leave the chart file and the log as they were; the chart file changes only
\* when the log has rows of both session types.
C7_ReportNeedsBoth ==
    [][ /\ (steps' = <<"report">> /\ log = <<>> =>
               /\ message' = "No log data found."
               /\ chart' = chart
               /\ log' = log)
        /\ (steps' = <<"report">> /\ log # <<>> /\ ~HasBothTypes(log) =>
               /\ message' = "Need both 'before' and 'after' data."
               /\ chart' = chart
               /\ log' = log)
        /\ (chart' # chart => HasBothTypes(log))
        /\ (steps' = <<"report">> /\ HasBothTypes(log) =>
               message' = "Visualizations saved" /\ chart' # <<>>) ]_vars

C7_Witness ==
    /\ steps = <<"report">>
    /\ message = "Need both 'before' and 'after' data."
    /\ LinesOfType(log, "before") # {}
    /\ LinesOfType(log, "after") = {}
    /\ chart = StaleChart

\* p is num/den rounded to a nearest integer, for den > 0.
IsNearest(p, num, den) ==
    /\ 2 * (num - p * den) <= den
    /\ 2 * (p * den - num) <= den

\* C8: the summary of a completed run is the rounded percentages of the two
\* records of this run: 80% time saved, and the error reduction
\* 1 - after.errors / max(1, before.errors); 80% and 93% for 100 files,
\* whatever earlier runs logged.
C8_SummaryFromThisRun ==
    summary # <<>> =>
        LET b == Max(1, Get(before_data, "errors"))
            a == Get(after_data, "errors")
        IN  /\ summary[1] = 80
            /\ IsNearest(summary[1], 100 * (189 - 38), 189)
            /\ IsNearest(summary[2], 100 * (b - a), b)
            /\ Get(before_data, "songs_processed") = file_count
            /\ Get(after_data, "songs_processed") = file_count
            /\ (file_count = 100 => summary = <<80, 93>>)

C8_Witness ==
    /\ summary = <<80, 93>>
    /\ file_count = 100
    /\ runs = 2
    /\ Len(log) = 5
    /\ log[2][2] = 20

\* C9: in the log every "after" row comes right after a "before" row with the
\* same songs_processed, and there are at least as many "before" rows as
\* "after" rows; a run that ends in the bridge has added one row to the log,
\* its "before" row, which is the last one.
C9_LogPairing ==
    /\ \A i \in LinesOfType(log, "after") :
           /\ i > 2
           /\ log[i - 1][1] = "before"
           /\ log[i - 1][2] = log[i][2]
    /\ Cardinality(LinesOfType(log, "before")) >= Cardinality(LinesOfType(log, "after"))
    /\ (pc = "exited" /\ LastStep = "launch" =>
           /\ Len(log) = Max(Len(log_at_start), 1) + 1
           /\ IsPrefix(log_at_start, log)
           /\ log[Len(log)][1] = "before"
           /\ log[Len(log)][2] = file_count)

C9_Witness ==
    /\ pc = "exited"
    /\ LastStep = "launch"
    /\ runs = 2
    /\ Len(log) = 4
    /\ log[3][1] = "after"

\* C10: the bridge always selects a candidate, the first candidate path that
\* exists and else the bare command name, so the "not found" exit is never
\* taken and a run that ends in the bridge ended on a failed spawn.
C10_AlwaysSelects ==
    /\ message # "MusicBrainz Picard not found."
    /\ (InSteps("launch") =>
           /\ picard_cmd # "None"
           /\ \E k \in 1..Len(picard_paths) :
                  /\ picard_cmd = picard_paths[k]
                  /\ picard_cmd \in installed \/ picard_cmd = "picard"
                  /\ \A j \in 1..(k - 1) : picard_paths[j] \notin installed)
    /\ (pc = "exited" /\ LastStep = "launch" =>
           /\ message = "Failed to launch Picard"
           /\ exit_status = 1
           /\ picard = "none")

C10_Witness ==
    /\ installed = {}
    /\ platform = "other"
    /\ in_path
    /\ picard_cmd = "picard"
    /\ pc = "wait_input"
    /\ picard = "running"
====
